---- MODULE Spec2Model ----
(***************************************************************************)
(* Timeline scheduling and remote-actuation engine of the bubble machine   *)
(* dashboard (src/App.tsx) and its timeline editor (MultiTrackTimeline).   *)
(*                                                                         *)
(* Units.  Time is counted in units of 50 ms, so the 100 ms playhead       *)
(* interval is TickUnits = 2 and a block startTime of 1 s is 20.  Motor    *)
(* positions are counted in units of 25 steps, so that stepDelay           *)
(* (0.002 s per step) is exactly one time unit per position unit.          *)
(*                                                                         *)
(* React.  A handler or timer callback reads the state values of the       *)
(* render in which its closure was created.  A run's closures (the per-    *)
(* block timers, the interval, executeBlock) are created by the toggleRun  *)
(* call that starts the run; the values they captured are kept in the      *)
(* field env of every timer record.  Refs (isRunningRef, timeoutRefs,      *)
(* playbackIntervalRef) are read live.  A re-render happens between two    *)
(* events, so a user handler reads the current state.                      *)
(***************************************************************************)
EXTENDS Integers, Sequences, FiniteSets, Bags, TLC

VARIABLES
  config,              \* useState<SimulationConfig>
  machineState,        \* useState<MachineState>
  isRunning,           \* useState(false)
  isPiOnline,          \* useState(false)
  smokeRunning,        \* useState(false)
  fanRunning,          \* useState(false)
  motorAPosition,      \* useState<number>(0)
  motorBPosition,      \* useState<number>(0)
  movementDuration,    \* useState<number>(0)
  currentPlaybackTime, \* useState<number>(0): number of 0.1 additions since the last reset
  isRunningRef,        \* useRef<boolean>(false)
  timeoutRefs,         \* useRef<Map<string, any>>: block id -> timer handle
  playbackIntervalRef, \* useRef<any>(null): handle of the interval, 0 for null
  timers,              \* armed setTimeout callbacks of the block schedule
  intervals,           \* armed setInterval callbacks
  net,                 \* the bag of requests in flight
  stops,               \* suspended stopSimulation calls, by stop number
  now,                 \* the clock of the event loop
  heartbeatPending,    \* the heartbeat of this time window has not been answered yet
  runId,               \* number of runs started so far
  event,               \* history: what the last step did (skip, failure, unhandled rejection) or none
  homeIssued,          \* history: runs whose stop has issued its OPEN command
  mounted,             \* the timeline editor has run its mount effect
  editCount,           \* history: number of editor mutations so far
  draggedBlockId,      \* the editor's state: the block being dragged, or NoDrag
  dragPos,             \* the positions the window mousemove listener's closure holds
  pendingSave,         \* the configs held by handleSaveMotorPosition calls awaiting a response
  loadPc,              \* loadConfig of the load effect: "idle", "pending" (/get_config in flight) or
                       \* "loaded" (configLoadedRef.current is true)
  manualCount,         \* history: number of manual override clicks so far
  piIp                 \* useState<string>('192.168.0.99'): an address is set (TRUE) or the field is empty

vars == << config, machineState, isRunning, isPiOnline, smokeRunning, fanRunning,
           motorAPosition, motorBPosition, movementDuration, currentPlaybackTime,
           isRunningRef, timeoutRefs, playbackIntervalRef, timers, intervals, net,
           stops, now, heartbeatPending, runId, event, homeIssued, mounted,
           editCount, draggedBlockId, dragPos, pendingSave, loadPc, manualCount,
           piIp >>

editorVars == << mounted, editCount, draggedBlockId, dragPos, pendingSave >>

schedVars == << machineState, isRunning, isPiOnline, smokeRunning, fanRunning,
                movementDuration, currentPlaybackTime, isRunningRef, timeoutRefs,
                playbackIntervalRef, timers, intervals, net, stops, now,
                heartbeatPending, runId, event, homeIssued, loadPc,
                manualCount, piIp >>

(***************************************************************************)
(* Bounds of the model                                                     *)
(***************************************************************************)
MaxTime == 4          \* the clock stops advancing here
MaxRuns == 2          \* toggleRun starts at most this many runs
MaxInFlight == 2      \* requests outstanding at once
MaxEdits == 2         \* editor mutations in one behaviour
E2EMaxTime == 180     \* the clock of the end-to-end scenario stops here: two iterations
MaxPos == 2           \* cached axis positions of the estimator's check, in position units
MaxManual == 1        \* manual override clicks
MaxSaves == 1         \* handleSaveMotorPosition calls awaiting a response at once

(***************************************************************************)
(* Program constants                                                       *)
(***************************************************************************)
TickUnits == 2        \* setInterval(..., 100)
StepDelay == 1        \* stepDelay = 0.002 s per step
DefaultTarget == 8    \* the fallback 200 of `config.motorADipPosition || 200`
StopDelay == 2        \* setTimeout(resolve, 100) in stopSimulation
NoHandle == 0         \* null in playbackIntervalRef
FanBlockDuration == 60    \* duration: 3.0 of a new fan block
SmokeBlockDuration == 10  \* duration: 0.5 of a new smoke block

NoDrag == "null"      \* draggedBlockId null

Abs(x) == IF x < 0 THEN -x ELSE x

Max2(x, y) == IF x > y THEN x ELSE y

\* JavaScript `v || d` on numbers: 0 is falsy
OrElse(v, d) == IF v = 0 THEN d ELSE v

(***************************************************************************)
(* Types (src/unnamed/part_001, the types module)                          *)
(***************************************************************************)
Block(id, type, action, startTime, duration) ==
  [id |-> id, type |-> type, action |-> action, startTime |-> startTime,
   duration |-> duration]

Track(id, type, blocks) == [id |-> id, type |-> type, blocks |-> blocks]

(***************************************************************************)
(* Duration estimators                                                     *)
(***************************************************************************)
\* An estimator that adds the two axes' steps where the motors move together
calculateMovementDurationSum(state, cfg, posA, posB) ==
  IF state = "DIP"
  THEN (Abs(OrElse(cfg.motorADipPosition, DefaultTarget) - posA)
        + Abs(OrElse(cfg.motorBDipPosition, -DefaultTarget) - posB)) * StepDelay
  ELSE IF state \in {"OPEN", "HOME"}
  THEN (Abs(0 - posA) + Abs(0 - posB)) * StepDelay
  ELSE IF state = "CLOSE"
  THEN (Abs(OrElse(cfg.motorAClosePosition, DefaultTarget) - posA)
        + Abs(OrElse(cfg.motorBClosePosition, -DefaultTarget) - posB)) * StepDelay
  ELSE 0

\* App.tsx calculateMovementDuration: reads config and the cached positions
\* of the render it belongs to
calculateMovementDuration(state, cfg, posA, posB) ==
  IF state = "DIP"
  THEN Max2(Abs(OrElse(cfg.motorADipPosition, DefaultTarget) - posA),
            Abs(OrElse(cfg.motorBDipPosition, -DefaultTarget) - posB)) * StepDelay
  ELSE IF state \in {"OPEN", "HOME"}
  THEN Max2(Abs(0 - posA), Abs(0 - posB)) * StepDelay
  ELSE IF state = "CLOSE"
  THEN Max2(Abs(OrElse(cfg.motorAClosePosition, DefaultTarget) - posA),
            Abs(OrElse(cfg.motorBClosePosition, -DefaultTarget) - posB)) * StepDelay
  ELSE 0

\* MultiTrackTimeline calculateMotorDuration: the editor's copy (no HOME case)
calculateMotorDuration(action, cfg, posA, posB) ==
  IF action = "DIP"
  THEN Max2(Abs(OrElse(cfg.motorADipPosition, DefaultTarget) - posA),
            Abs(OrElse(cfg.motorBDipPosition, -DefaultTarget) - posB)) * StepDelay
  ELSE IF action = "OPEN"
  THEN Max2(Abs(0 - posA), Abs(0 - posB)) * StepDelay
  ELSE IF action = "CLOSE"
  THEN Max2(Abs(OrElse(cfg.motorAClosePosition, DefaultTarget) - posA),
            Abs(OrElse(cfg.motorBClosePosition, -DefaultTarget) - posB)) * StepDelay
  ELSE 0

\* executeBlock's target of a motor block: <<targetA, targetB>>; an action
\* without a case leaves the positions the closure captured
MotorTarget(state, cfg, posA, posB) ==
  IF state = "DIP"
  THEN << OrElse(cfg.motorADipPosition, DefaultTarget),
          OrElse(cfg.motorBDipPosition, -DefaultTarget) >>
  ELSE IF state \in {"OPEN", "HOME"}
  THEN << 0, 0 >>
  ELSE IF state = "CLOSE"
  THEN << OrElse(cfg.motorAClosePosition, DefaultTarget),
          OrElse(cfg.motorBClosePosition, -DefaultTarget) >>
  ELSE << posA, posB >>

(***************************************************************************)
(* Timeline model: the editor's recomputation of loopDuration              *)
(***************************************************************************)
\* All blocks of all tracks in track order (timeline.forEach track.blocks.forEach)
RECURSIVE FlattenTracks(_)
FlattenTracks(timeline) ==
  IF timeline = << >> THEN << >>
  ELSE Head(timeline).blocks \o FlattenTracks(Tail(timeline))

\* endTime of one block as the editor computes it
EditorEndTime(block, cfg, posA, posB) ==
  block.startTime
    + (IF block.type = "motor"
       THEN calculateMotorDuration(block.action, cfg, posA, posB) + block.duration
       ELSE block.duration)

\* the loop `let maxEnd = 0; ... if (endTime > maxEnd) maxEnd = endTime`
RECURSIVE MaxEndFold(_, _, _, _, _)
MaxEndFold(blocks, cfg, posA, posB, maxEnd) ==
  IF blocks = << >> THEN maxEnd
  ELSE LET endTime == EditorEndTime(Head(blocks), cfg, posA, posB)
       IN MaxEndFold(Tail(blocks), cfg, posA, posB,
                     IF endTime > maxEnd THEN endTime ELSE maxEnd)

calculateTotalDuration(timeline, cfg, posA, posB) ==
  MaxEndFold(FlattenTracks(timeline), cfg, posA, posB, 0)

\* a mutation handler's last statement:
\* setConfig({ ...config, loopTimeline: newTimeline, loopDuration: maxEnd })
WithTimeline(cfg, newTimeline, posA, posB) ==
  [cfg EXCEPT !.loopTimeline = newTimeline,
              !.loopDuration = calculateTotalDuration(newTimeline, cfg, posA, posB)]

\* { ...block, ...updates }
MergeBlock(block, updates) ==
  [f \in DOMAIN block |-> IF f \in DOMAIN updates THEN updates[f] ELSE block[f]]

\* blocks.map(block => block.id === blockId ? { ...block, ...updates } : block)
\* over every track
UpdateBlocks(timeline, blockId, updates) ==
  [t \in DOMAIN timeline |->
     [timeline[t] EXCEPT !.blocks =
        [i \in DOMAIN timeline[t].blocks |->
           IF timeline[t].blocks[i].id = blockId
           THEN MergeBlock(timeline[t].blocks[i], updates)
           ELSE timeline[t].blocks[i]]]]

\* blocks.filter(b => b.id !== blockId) over every track
RemoveBlock(timeline, blockId) ==
  [t \in DOMAIN timeline |->
     [timeline[t] EXCEPT !.blocks =
        SelectSeq(timeline[t].blocks, LAMBDA b : b.id # blockId)]]

(***************************************************************************)
(* toggleRun: building the schedule                                        *)
(***************************************************************************)
\* Array.prototype.sort is stable: a block goes after the blocks that do not
\* start later
RECURSIVE InsertByStart(_, _)
InsertByStart(sorted, b) ==
  IF sorted = << >> THEN << b >>
  ELSE IF Head(sorted).startTime <= b.startTime
       THEN << Head(sorted) >> \o InsertByStart(Tail(sorted), b)
       ELSE << b >> \o sorted

RECURSIVE SortByStart(_, _)
SortByStart(blocks, acc) ==
  IF blocks = << >> THEN acc
  ELSE SortByStart(Tail(blocks), InsertByStart(acc, Head(blocks)))

\* allBlocks of toggleRun
AllBlocks(timeline) == SortByStart(FlattenTracks(timeline), << >>)

\* An end time that leaves the movement out
PlayerEndTimeFlat(block, cfg, posA, posB) ==
  block.startTime + block.duration

\* toggleRun's endTime of one block
PlayerEndTime(block, cfg, posA, posB) ==
  block.startTime
    + (IF block.type = "motor"
       THEN calculateMovementDuration(block.action, cfg, posA, posB) + block.duration
       ELSE block.duration)

\* toggleRun's loop over allBlocks computing maxEndTime
RECURSIVE PlayerMaxEnd(_, _, _, _, _)
PlayerMaxEnd(blocks, cfg, posA, posB, maxEndTime) ==
  IF blocks = << >> THEN maxEndTime
  ELSE LET endTime == PlayerEndTime(Head(blocks), cfg, posA, posB)
       IN PlayerMaxEnd(Tail(blocks), cfg, posA, posB,
                       IF endTime > maxEndTime THEN endTime ELSE maxEndTime)

\* The playhead is a double that grows by 0.1 per tick.  After n additions the
\* sum is below the double nearest n/10 exactly for these n (n <= 400); for
\* every other n it is that double or above it.
PlayheadBelow(n) == n \in 8..11 \/ n \in 47..188

\* `newTime > loopData.maxEndTime`: a restart only once the loop length is passed
PlayheadReachedPast(n, maxEndTime) == n * TickUnits > maxEndTime

\* `newTime >= loopData.maxEndTime` after n additions of 0.1
PlayheadReached(n, maxEndTime) ==
  \/ n * TickUnits > maxEndTime
  \/ n * TickUnits = maxEndTime /\ ~PlayheadBelow(n)

(***************************************************************************)
(* Timers, requests, closures                                              *)
(***************************************************************************)
\* `piIp && isPiOnline`, the test before every remote call
Online == piIp /\ isPiOnline

\* What the closures of one toggleRun call captured
Env(cfg, posA, posB, online, startedAt, maxEndTime) ==
  [config |-> cfg, posA |-> posA, posB |-> posB, online |-> online,
   loopStartTime |-> startedAt, maxEndTime |-> maxEndTime]

\* A timer handle: a timer of a run is known by its block and its due time
Handle(t) == [run |-> t.run, due |-> t.due]

\* A restart that re-arms the first block of the schedule only
ArmBlocksFirst(allBlocks, run, restart, env) ==
  { [block |-> allBlocks[i], idx |-> i, due |-> now + allBlocks[i].startTime,
     run |-> run, restart |-> restart, env |-> env] :
       i \in { j \in DOMAIN allBlocks : ~restart \/ j = 1 } }

\* setTimeout(callback, startTime * 1000) for every block of allBlocks
ArmBlocks(allBlocks, run, restart, env) ==
  { [block |-> allBlocks[i], idx |-> i, due |-> now + allBlocks[i].startTime,
     run |-> run, restart |-> restart, env |-> env] : i \in DOMAIN allBlocks }

\* timeoutRefs.current.set(block.id, timeoutId) in allBlocks order: the last
\* block of an id wins
RECURSIVE SetRefs(_, _, _, _)
SetRefs(refs, allBlocks, run, i) ==
  IF i > Len(allBlocks) THEN refs
  ELSE LET b == allBlocks[i]
           h == [run |-> run, due |-> now + b.startTime]
       IN SetRefs([k \in DOMAIN refs \cup {b.id} |-> IF k = b.id THEN h ELSE refs[k]],
                  allBlocks, run, i + 1)

\* timeoutRefs.current.delete(id)
DeleteRef(refs, id) == [k \in DOMAIN refs \ {id} |-> refs[k]]

EmptyRefs == [k \in {} |-> 0]

Request(kind, arg, src, run) == [kind |-> kind, arg |-> arg, src |-> src, run |-> run]

\* The requests in flight are a bag: responses arrive in any order
Send(requests, req) == requests (+) SetToBag({req})

Settle(requests, req) == requests (-) SetToBag({req})

InFlight == BagCardinality(net)

\* What the last step did, for the properties: a callback that found the run
\* flag cleared (skip), a movement command of a block that failed (fail)
Event(kind, run) == [kind |-> kind, run |-> run]

NoEvent == Event("none", 0)



\* What the controller may answer to set_state and /health: positions, the
\* duration of the move, fan_running
ServerReplies == { [a |-> 1, b |-> -1, dur |-> 1, fan |-> TRUE] }

NoReply == [a |-> 0, b |-> 0, dur |-> 0, fan |-> FALSE]

(***************************************************************************)
(* executeBlock                                                            *)
(***************************************************************************)
\* An executeBlock whose fan blocks switch the blower per block
ExecuteBlockFan(block, env, tRun) ==
  IF ~isRunningRef
  THEN /\ event' = Event("skip", tRun)
       /\ UNCHANGED << machineState, movementDuration, motorAPosition,
                       motorBPosition, net >>
  ELSE LET motorDuration ==
             calculateMovementDuration(block.action, env.config, env.posA, env.posB)
           target == MotorTarget(block.action, env.config, env.posA, env.posB)
       IN
       /\ event' = NoEvent
       /\ IF block.type = "motor"
          THEN /\ machineState' = block.action
               /\ movementDuration' = motorDuration
               /\ motorAPosition' = target[1]
               /\ motorBPosition' = target[2]
               /\ net' = IF env.online
                         THEN Send(net, Request("set_state", block.action, "block", tRun))
                         ELSE net
          ELSE IF block.type = "smoke"
          THEN /\ net' = IF env.online
                         THEN Send(net, Request("control_smoke",
                                IF block.action = "start" THEN "start" ELSE "stop",
                                "block", tRun))
                         ELSE net
               /\ UNCHANGED << machineState, movementDuration, motorAPosition,
                               motorBPosition >>
          ELSE /\ net' = IF env.online
                         THEN Send(net, Request("update_config",
                                IF block.action = "start" THEN "fan_on" ELSE "fan_off",
                                "block", tRun))
                         ELSE net
               /\ UNCHANGED << machineState, movementDuration, motorAPosition,
                               motorBPosition >>

\* executeBlock(block) of the closures env, called by a timer of run tRun.
\* config, motorAPosition, motorBPosition and isPiOnline are the closure's.
ExecuteBlock(block, env, tRun) ==
  IF ~isRunningRef
  THEN /\ event' = Event("skip", tRun)
       /\ UNCHANGED << machineState, movementDuration, motorAPosition,
                       motorBPosition, net >>
  ELSE LET motorDuration ==
             calculateMovementDuration(block.action, env.config, env.posA, env.posB)
           target == MotorTarget(block.action, env.config, env.posA, env.posB)
       IN
       /\ event' = NoEvent
       /\ IF block.type = "motor"
          THEN /\ machineState' = block.action
               /\ movementDuration' = motorDuration
               /\ motorAPosition' = target[1]
               /\ motorBPosition' = target[2]
               /\ net' = IF env.online
                         THEN Send(net, Request("set_state", block.action, "block", tRun))
                         ELSE net
          ELSE IF block.type = "smoke"
          THEN /\ net' = IF env.online
                         THEN Send(net, Request("control_smoke",
                                IF block.action = "start" THEN "start" ELSE "stop",
                                "block", tRun))
                         ELSE net
               /\ UNCHANGED << machineState, movementDuration, motorAPosition,
                               motorBPosition >>
          ELSE UNCHANGED << machineState, movementDuration, motorAPosition,
                            motorBPosition, net >>

(***************************************************************************)
(* toggleRun and stopSimulation                                            *)
(***************************************************************************)
\* toggleRun with isRunning false: start a run
StartRun ==
  /\ ~isRunning
  /\ runId < MaxRuns
  /\ InFlight < MaxInFlight
  /\ LET timeline == config.loopTimeline
         allBlocks == AllBlocks(timeline)
         maxEndTime == PlayerMaxEnd(allBlocks, config, motorAPosition, motorBPosition, 0)
         run == runId + 1
         env == Env(config, motorAPosition, motorBPosition, Online, now, maxEndTime)
     IN /\ Len(timeline) # 0
        /\ Len(allBlocks) # 0
        /\ isRunning' = TRUE
        /\ isRunningRef' = TRUE
        /\ currentPlaybackTime' = 0
        /\ net' = IF config.fanEnabled /\ Online
                  THEN Send(net, Request("update_config", "fan_on", "start", run))
                  ELSE net
        /\ intervals' = intervals \cup
             { [run |-> run, due |-> now + TickUnits, allBlocks |-> allBlocks,
                env |-> env] }
        /\ playbackIntervalRef' = run
        /\ timers' = timers \cup ArmBlocks(allBlocks, run, FALSE, env)
        /\ timeoutRefs' = SetRefs(timeoutRefs, allBlocks, run, 1)
        /\ runId' = run
  /\ event' = NoEvent
  /\ UNCHANGED << config, machineState, isPiOnline, smokeRunning, fanRunning,
                  motorAPosition, motorBPosition, movementDuration, stops, now,
                  homeIssued, editorVars, loadPc, manualCount, piIp, heartbeatPending >>

\* A stop that clears the timers of the map and leaves the map as it is
StopTimersKeepRefs ==
  /\ isRunning' = FALSE
  /\ isRunningRef' = FALSE
  /\ timers' = { t \in timers :
                   ~ (t.block.id \in DOMAIN timeoutRefs
                      /\ timeoutRefs[t.block.id] = Handle(t)) }
  /\ timeoutRefs' = timeoutRefs
  /\ intervals' = { iv \in intervals : iv.run # playbackIntervalRef }
  /\ playbackIntervalRef' = NoHandle
  /\ currentPlaybackTime' = 0

\* stopSimulation's local part: the run flags, clearTimeout of every handle
\* in timeoutRefs, clearInterval, the playhead
StopTimers ==
  /\ isRunning' = FALSE
  /\ isRunningRef' = FALSE
  /\ timers' = { t \in timers :
                   ~ (t.block.id \in DOMAIN timeoutRefs
                      /\ timeoutRefs[t.block.id] = Handle(t)) }
  /\ timeoutRefs' = EmptyRefs
  /\ intervals' = { iv \in intervals : iv.run # playbackIntervalRef }
  /\ playbackIntervalRef' = NoHandle
  /\ currentPlaybackTime' = 0

\* The first request of stopSimulation when the controller is online: the
\* fogger stop if the smokeRunning of this render is true, else the fan disable
StopRequest ==
  IF smokeRunning
  THEN Request("control_smoke", "stop", "stop", runId)
  ELSE Request("update_config", "fan_off", "stop", runId)

\* The suspended stopSimulation call: where it awaits
StopRecord(skipOpen) ==
  [run |-> runId, pc |-> IF smokeRunning THEN "smoke" ELSE "fan", due |-> 0,
   skipOpen |-> skipOpen]

\* stopSimulation(skipOpen) up to its first await
StopSimulation(skipOpen) ==
  /\ StopTimers
  /\ IF Online
     THEN /\ net' = Send(net, StopRequest)
          /\ stops' = stops \cup { StopRecord(skipOpen) }
          /\ UNCHANGED machineState
     ELSE /\ machineState' = "IDLE"
          /\ UNCHANGED << net, stops >>

\* toggleRun with isRunning true
StopRun ==
  /\ isRunning
  /\ InFlight < MaxInFlight
  /\ StopSimulation(FALSE)
  /\ event' = NoEvent
  /\ UNCHANGED << config, isPiOnline, smokeRunning, fanRunning, motorAPosition,
                  motorBPosition, movementDuration, now, runId, homeIssued, editorVars, loadPc, manualCount, piIp, heartbeatPending >>

\* sendRemoteCommand's handling of a successful set_state response
ApplyStateReply(reply) ==
  /\ motorAPosition' = reply.a
  /\ motorBPosition' = reply.b
  /\ movementDuration' = reply.dur
  /\ fanRunning' = reply.fan

\* stopSimulation resumes after an awaited request: the fetch resolved (ok) or
\* rejected; for set_state ok is an OK response and reply its data
StopResume(req, ok, reply) ==
  /\ BagIn(req, net)
  /\ req.src = "stop"
  /\ \E c \in stops :
       /\ c.run = req.run
       /\ c.pc = (IF req.kind = "control_smoke" THEN "smoke"
                  ELSE IF req.kind = "update_config" THEN "fan" ELSE "open")
       /\ IF c.pc = "smoke"
          THEN /\ smokeRunning' = IF ok THEN FALSE ELSE smokeRunning
               /\ net' = Send(Settle(net, req),
                              Request("update_config", "fan_off", "stop", c.run))
               /\ stops' = (stops \ {c}) \cup {[c EXCEPT !.pc = "fan"]}
               /\ UNCHANGED << machineState, fanRunning, motorAPosition,
                               motorBPosition, movementDuration >>
          ELSE IF c.pc = "fan"
          THEN /\ fanRunning' = IF ok THEN FALSE ELSE fanRunning
               /\ net' = Settle(net, req)
               /\ stops' = IF c.skipOpen
                           THEN stops \ {c}
                           ELSE (stops \ {c}) \cup
                                {[c EXCEPT !.pc = "delay", !.due = now + StopDelay]}
               /\ UNCHANGED << machineState, smokeRunning, motorAPosition,
                               motorBPosition, movementDuration >>
          ELSE /\ net' = Settle(net, req)
               /\ stops' = stops \ {c}
               /\ IF ok
                  THEN /\ ApplyStateReply(reply)
                       /\ machineState' = "OPEN"
                  ELSE /\ machineState' = "IDLE"
                       /\ UNCHANGED << fanRunning, motorAPosition, motorBPosition,
                                       movementDuration >>
               /\ UNCHANGED smokeRunning
  /\ event' = NoEvent
  /\ UNCHANGED << config, isRunning, isPiOnline, currentPlaybackTime, isRunningRef,
                  timeoutRefs, playbackIntervalRef, timers, intervals, now, runId,
                  homeIssued, editorVars, loadPc, manualCount, piIp, heartbeatPending >>

\* stopSimulation after its 100 ms pause: sendRemoteCommand(OPEN)
StopSendOpen(c) ==
  /\ c \in stops
  /\ c.pc = "delay"
  /\ c.due <= now
  /\ net' = Send(net, Request("set_state", "OPEN", "stop", c.run))
  /\ stops' = (stops \ {c}) \cup {[c EXCEPT !.pc = "open"]}
  /\ homeIssued' = homeIssued \cup {c.run}
  /\ event' = NoEvent
  /\ UNCHANGED << config, machineState, isRunning, isPiOnline, smokeRunning,
                  fanRunning, motorAPosition, motorBPosition, movementDuration,
                  currentPlaybackTime, isRunningRef, timeoutRefs, playbackIntervalRef,
                  timers, intervals, now, runId, editorVars, loadPc, manualCount, piIp,
                  heartbeatPending >>

(***************************************************************************)
(* Timer callbacks                                                         *)
(***************************************************************************)
\* Timers armed by one forEach with the same delay run in the order armed
MayFire(t) ==
  /\ t.due <= now
  /\ \A u \in timers :
       (u.run = t.run /\ u.restart = t.restart /\ u.due = t.due
        /\ u.block.startTime = t.block.startTime) => u.idx >= t.idx

\* The callback of a per-block timer: the one armed by toggleRun calls
\* executeBlock, the one armed by a loop restart checks isRunningRef first;
\* both then delete the block's entry of timeoutRefs
FireTimer(t) ==
  /\ t \in timers
  /\ MayFire(t)
  /\ timers' = timers \ {t}
  /\ IF t.restart /\ ~isRunningRef
     THEN /\ event' = Event("skip", t.run)
          /\ UNCHANGED << machineState, movementDuration, motorAPosition,
                          motorBPosition, net >>
     ELSE ExecuteBlock(t.block, t.env, t.run)
  /\ timeoutRefs' = DeleteRef(timeoutRefs, t.block.id)
  /\ UNCHANGED << config, isRunning, isPiOnline, smokeRunning, fanRunning,
                  currentPlaybackTime, isRunningRef, playbackIntervalRef, intervals,
                  stops, now, runId, homeIssued, editorVars, loadPc, manualCount, piIp,
                  heartbeatPending >>

\* An interval callback whose restart reads the timeline of the current render
TickLive(iv) ==
  /\ iv \in intervals
  /\ iv.due <= now
  /\ intervals' = (intervals \ {iv}) \cup {[iv EXCEPT !.due = iv.due + TickUnits]}
  /\ IF ~isRunningRef
     THEN /\ event' = Event("skip", iv.run)
          /\ UNCHANGED << currentPlaybackTime, timers, timeoutRefs >>
     ELSE LET newTime == currentPlaybackTime + 1
          IN /\ event' = NoEvent
             /\ IF PlayheadReached(newTime, iv.env.maxEndTime)
                THEN /\ timers' = timers \cup
                                    ArmBlocks(AllBlocks(config.loopTimeline), iv.run, TRUE, iv.env)
                     /\ timeoutRefs' = SetRefs(timeoutRefs, AllBlocks(config.loopTimeline), iv.run, 1)
                     /\ currentPlaybackTime' = 0
                ELSE /\ currentPlaybackTime' = newTime
                     /\ UNCHANGED << timers, timeoutRefs >>
  /\ UNCHANGED << config, machineState, isRunning, isPiOnline, smokeRunning,
                  fanRunning, motorAPosition, motorBPosition, movementDuration,
                  isRunningRef, playbackIntervalRef, net, stops, now, runId,
                  homeIssued, editorVars, loadPc, manualCount, piIp, heartbeatPending >>

\* The callback of the 100 ms interval, with its state updater
Tick(iv) ==
  /\ iv \in intervals
  /\ iv.due <= now
  /\ intervals' = (intervals \ {iv}) \cup {[iv EXCEPT !.due = iv.due + TickUnits]}
  /\ IF ~isRunningRef
     THEN /\ event' = Event("skip", iv.run)
          /\ UNCHANGED << currentPlaybackTime, timers, timeoutRefs >>
     ELSE LET newTime == currentPlaybackTime + 1
          IN /\ event' = NoEvent
             /\ IF PlayheadReached(newTime, iv.env.maxEndTime)
                THEN /\ timers' = timers \cup
                                    ArmBlocks(iv.allBlocks, iv.run, TRUE, iv.env)
                     /\ timeoutRefs' = SetRefs(timeoutRefs, iv.allBlocks, iv.run, 1)
                     /\ currentPlaybackTime' = 0
                ELSE /\ currentPlaybackTime' = newTime
                     /\ UNCHANGED << timers, timeoutRefs >>
  /\ UNCHANGED << config, machineState, isRunning, isPiOnline, smokeRunning,
                  fanRunning, motorAPosition, motorBPosition, movementDuration,
                  isRunningRef, playbackIntervalRef, net, stops, now, runId,
                  homeIssued, editorVars, loadPc, manualCount, piIp, heartbeatPending >>

(***************************************************************************)
(* Responses to the requests of blocks and of start                        *)
(***************************************************************************)
\* ok: the fetch resolved (for set_state: with an OK status and its data);
\* otherwise it rejected (for set_state: or the status was not OK).  A failed
\* set_state of a block ends in executeBlock's catch, which logs it.
Respond(req, ok, reply) ==
  /\ BagIn(req, net)
  /\ req.src \notin {"stop", "manual"}
  /\ net' = Settle(net, req)
  /\ event' = IF req.kind = "set_state" /\ ~ok
              THEN Event("fail", req.run)
              ELSE NoEvent
  /\ IF req.kind = "set_state"
     THEN /\ IF ok
             THEN ApplyStateReply(reply)
             ELSE UNCHANGED << motorAPosition, motorBPosition, movementDuration,
                               fanRunning >>
          /\ UNCHANGED smokeRunning
     ELSE IF req.kind = "control_smoke"
     THEN /\ smokeRunning' = IF ok THEN (req.arg = "start") ELSE smokeRunning
          /\ UNCHANGED << motorAPosition, motorBPosition, movementDuration,
                          fanRunning >>
     ELSE /\ fanRunning' = IF ok THEN TRUE ELSE fanRunning
          /\ UNCHANGED << motorAPosition, motorBPosition, movementDuration,
                          smokeRunning >>
  /\ UNCHANGED << config, machineState, isRunning, isPiOnline, currentPlaybackTime,
                  isRunningRef, timeoutRefs, playbackIntervalRef, timers, intervals,
                  stops, now, runId, homeIssued, editorVars, loadPc, manualCount, piIp,
                  heartbeatPending >>

RepliesFor(req) ==
  IF req.kind = "set_state" \/ req.src = "manual" THEN ServerReplies ELSE {NoReply}

(***************************************************************************)
(* Manual overrides                                                        *)
(***************************************************************************)
\* The states of the Manual Overrides buttons
ManualButtons == {"DIP", "BLOW", "CLOSE", "OPEN"}

\* handleManualState(state): stopSimulation(true) up to its first await, the
\* estimate, the label, then handleSyncConfig() up to its await.  The buttons
\* are disabled while isRunning.
HandleManualState(state) ==
  /\ ~isRunning
  /\ manualCount < MaxManual
  /\ Online => InFlight + 2 <= MaxInFlight
  /\ manualCount' = manualCount + 1
  /\ StopTimers
  /\ movementDuration' =
       calculateMovementDuration(state, config, motorAPosition, motorBPosition)
  /\ machineState' = state
  /\ IF Online
     THEN /\ net' = Send(Send(net, StopRequest),
                         Request("update_config", state, "manual", runId))
          /\ stops' = stops \cup { StopRecord(TRUE) }
     ELSE UNCHANGED << net, stops >>
  /\ event' = NoEvent
  /\ UNCHANGED << config, isPiOnline, smokeRunning, fanRunning, motorAPosition,
                  motorBPosition, now, runId, homeIssued, editorVars, loadPc,
                  heartbeatPending, piIp >>

\* The promise chain handleSyncConfig().then(() => sendRemoteCommand(state)):
\* handleSyncConfig catches its own failure, so the command is sent either
\* way; sendRemoteCommand rethrows a failure and the chain has no catch
ManualResume(req, ok, reply) ==
  /\ BagIn(req, net)
  /\ req.src = "manual"
  /\ IF req.kind = "update_config"
     THEN /\ net' = Send(Settle(net, req),
                         Request("set_state", req.arg, "manual", req.run))
          /\ fanRunning' = IF ok THEN reply.fan ELSE fanRunning
          /\ event' = NoEvent
          /\ UNCHANGED << motorAPosition, motorBPosition, movementDuration >>
     ELSE /\ net' = Settle(net, req)
          /\ IF ok
             THEN /\ ApplyStateReply(reply)
                  /\ event' = NoEvent
             ELSE /\ event' = Event("unhandled", req.run)
                  /\ UNCHANGED << motorAPosition, motorBPosition, movementDuration,
                                  fanRunning >>
  /\ UNCHANGED << config, machineState, isRunning, isPiOnline, smokeRunning,
                  currentPlaybackTime, isRunningRef, timeoutRefs, playbackIntervalRef,
                  timers, intervals, stops, now, runId, homeIssued, editorVars,
                  loadPc, heartbeatPending, manualCount, piIp >>

(***************************************************************************)
(* Heartbeat                                                               *)
(*                                                                         *)
(* The heartbeat interval is 5000 ms and a probe is answered or times out  *)
(* within 2000 ms, so two answers are at least 3000 ms (60 time units)     *)
(* apart.  A behaviour covers MaxTime units, far less, and so sees at most *)
(* one answer: heartbeatPending.  The answers before it made isPiOnline    *)
(* what it is initially.                                                   *)
(***************************************************************************)
\* /health answered OK
HeartbeatOk(reply) ==
  /\ heartbeatPending
  /\ heartbeatPending' = FALSE
  /\ isPiOnline' = TRUE
  /\ motorAPosition' = OrElse(reply.a, 0)
  /\ motorBPosition' = OrElse(reply.b, 0)
  /\ fanRunning' = reply.fan
  /\ event' = NoEvent
  /\ loadPc' = IF piIp /\ ~isPiOnline /\ loadPc = "idle" THEN "pending" ELSE loadPc
  /\ UNCHANGED << config, machineState, isRunning, smokeRunning, movementDuration,
                  currentPlaybackTime, isRunningRef, timeoutRefs, playbackIntervalRef,
                  timers, intervals, net, stops, now, runId, homeIssued, editorVars,
                  manualCount, piIp >>

\* /health failed, timed out or answered a non-OK status
HeartbeatFail ==
  /\ heartbeatPending
  /\ heartbeatPending' = FALSE
  /\ isPiOnline' = FALSE
  /\ event' = NoEvent
  /\ UNCHANGED << config, machineState, isRunning, smokeRunning, fanRunning,
                  motorAPosition, motorBPosition, movementDuration,
                  currentPlaybackTime, isRunningRef, timeoutRefs, playbackIntervalRef,
                  timers, intervals, net, stops, now, runId, homeIssued, editorVars, loadPc, manualCount, piIp >>

(***************************************************************************)
(* Loading the configuration when the controller comes online              *)
(***************************************************************************)
\* loadConfig after its await: /get_config answered with success and a config
LoadConfigOk(loaded) ==
  /\ loadPc = "pending"
  /\ loadPc' = "loaded"
  /\ config' = loaded
  /\ event' = NoEvent
  /\ UNCHANGED << machineState, isRunning, isPiOnline, smokeRunning, fanRunning,
                  motorAPosition, motorBPosition, movementDuration,
                  currentPlaybackTime, isRunningRef, timeoutRefs, playbackIntervalRef,
                  timers, intervals, net, stops, now, runId, homeIssued, editorVars,
                  heartbeatPending, manualCount, piIp >>

\* loadConfig after its await: the fetch failed or answered without a config
LoadConfigFail ==
  /\ loadPc = "pending"
  /\ loadPc' = "idle"
  /\ event' = NoEvent
  /\ UNCHANGED << config, machineState, isRunning, isPiOnline, smokeRunning,
                  fanRunning, motorAPosition, motorBPosition, movementDuration,
                  currentPlaybackTime, isRunningRef, timeoutRefs, playbackIntervalRef,
                  timers, intervals, net, stops, now, runId, homeIssued, editorVars,
                  heartbeatPending, manualCount, piIp >>

(***************************************************************************)
(* The clock                                                               *)
(***************************************************************************)
\* Something is armed, outstanding or running
Busy ==
  isRunningRef \/ timers # {} \/ intervals # {} \/ net # EmptyBag \/ stops # {}

\* Time passes once every callback that is due has run.  The clock counts
\* from the first start: while nothing is armed, outstanding or running, the
\* passing of time changes nothing the program can observe.
AdvanceTo(limit) ==
  /\ now < limit
  /\ Busy
  /\ InFlight < MaxInFlight
  /\ \A t \in timers : t.due > now
  /\ \A iv \in intervals : iv.due > now
  /\ \A c \in stops : c.pc = "delay" => c.due > now
  /\ now' = now + 1
  /\ event' = NoEvent
  /\ UNCHANGED << config, machineState, isRunning, isPiOnline, smokeRunning,
                  fanRunning, motorAPosition, motorBPosition, movementDuration,
                  currentPlaybackTime, isRunningRef, timeoutRefs, playbackIntervalRef,
                  timers, intervals, net, stops, runId, homeIssued, editorVars, loadPc, manualCount, piIp, heartbeatPending >>

Advance == AdvanceTo(MaxTime)

(***************************************************************************)
(* Configurations                                                          *)
(***************************************************************************)
\* DEFAULT_CONFIG: the motor targets (200, -200, -400, 400 steps) and the
\* default timeline, in the units of this module
DefaultTimeline ==
  << Track("track-motors", "motors",
           << Block("m1", "motor", "OPEN", 0, 0),
              Block("m2", "motor", "CLOSE", 40, 0),
              Block("m3", "motor", "DIP", 80, 0) >>),
     Track("track-fan", "fan",
           << Block("f1", "fan", "start", 120, 60),
              Block("f2", "fan", "stop", 180, 0) >>),
     Track("track-smoke", "smoke", << >>) >>

DEFAULT_CONFIG ==
  [fanEnabled |-> TRUE,
   motorADipPosition |-> 8, motorBDipPosition |-> -8,
   motorAOpenPosition |-> -16, motorBOpenPosition |-> 16,
   motorAClosePosition |-> 8, motorBClosePosition |-> -8,
   loopTimeline |-> DefaultTimeline,
   loopDuration |-> 200]

\* Timelines an operator can build in the editor, short enough to loop
\* before MaxTime: a fogger stop at the loop end under a fan block, and two
\* motor blocks 50 ms apart with a loop length between two ticks
TimelineA ==
  << Track("track-motors", "motors", << >>),
     Track("track-fan", "fan", << Block("f1", "fan", "start", 0, 1) >>),
     Track("track-smoke", "smoke", << Block("s2", "smoke", "stop", 2, 0) >>) >>

TimelineB ==
  << Track("track-motors", "motors",
           << Block("m1", "motor", "CLOSE", 0, 0),
              Block("m2", "motor", "DIP", 1, 0) >>),
     Track("track-fan", "fan", << >>),
     Track("track-smoke", "smoke", << Block("s1", "smoke", "start", 0, 1) >>) >>

ShortConfig(timeline, fan) ==
  LET base == [DEFAULT_CONFIG EXCEPT
                 !.motorADipPosition = 2, !.motorBDipPosition = -2,
                 !.motorAClosePosition = 1, !.motorBClosePosition = -1,
                 !.fanEnabled = fan]
  IN WithTimeline(base, timeline, 0, 0)

SchedConfigs == { ShortConfig(TimelineA, TRUE), ShortConfig(TimelineB, FALSE) }

\* A timeline the controller can hold: setConfig(data.config) takes what
\* /get_config answers as it is, here with a fogger block in the motors track
\* and a motor block whose action is none of the poses
TimelineC ==
  << Track("track-motors", "motors",
           << Block("x1", "smoke", "start", 0, 1),
              Block("w1", "motor", "WAVE", 1, 0) >>),
     Track("track-fan", "fan", << >>),
     Track("track-smoke", "smoke", << >>) >>

ServerConfigs == { ShortConfig(TimelineC, FALSE) }

(***************************************************************************)
(* The player                                                              *)
(***************************************************************************)
InitCommon ==
  /\ machineState = "IDLE"
  /\ isRunning = FALSE
  /\ smokeRunning = FALSE
  /\ fanRunning = FALSE
  /\ movementDuration = 0
  /\ currentPlaybackTime = 0
  /\ isRunningRef = FALSE
  /\ timeoutRefs = EmptyRefs
  /\ playbackIntervalRef = NoHandle
  /\ timers = {}
  /\ intervals = {}
  /\ net = EmptyBag
  /\ stops = {}
  /\ now = 0
  /\ runId = 0
  /\ event = NoEvent
  /\ homeIssued = {}
  /\ editCount = 0
  /\ loadPc = "idle"
  /\ manualCount = 0
  /\ piIp = TRUE

Init ==
  /\ InitCommon
  /\ motorAPosition = 0
  /\ motorBPosition = 0
  /\ isPiOnline \in BOOLEAN
  /\ heartbeatPending = TRUE
  /\ config \in SchedConfigs
  /\ mounted = TRUE
  /\ draggedBlockId = NoDrag
  /\ dragPos = << 0, 0 >>
  /\ pendingSave = {}

Next ==
  \/ StartRun
  \/ StopRun
  \/ \E t \in timers : FireTimer(t)
  \/ \E iv \in intervals : Tick(iv)
  \/ \E c \in stops : StopSendOpen(c)
  \/ \E req \in BagToSet(net), ok \in BOOLEAN :
       \E reply \in RepliesFor(req) : StopResume(req, ok, reply)
  \/ \E req \in BagToSet(net), ok \in BOOLEAN :
       \E reply \in RepliesFor(req) : Respond(req, ok, reply)
  \/ \E reply \in ServerReplies : HeartbeatOk(reply)
  \/ HeartbeatFail
  \/ \E loaded \in ServerConfigs : LoadConfigOk(loaded)
  \/ LoadConfigFail
  \/ Advance

Spec == Init /\ [][Next]_vars

(***************************************************************************)
(* The duration estimator on its own: every label, configured targets that *)
(* are positive, zero and negative, every pair of cached positions up to   *)
(* MaxPos.  handleManualState applies calculateMovementDuration to the     *)
(* state it is given and stores the result in movementDuration; offline it *)
(* does nothing else with the network.                                     *)
(***************************************************************************)
\* The MachineState enum (src/unnamed/part_001)
MachineStates == {"IDLE", "DIP", "OPEN", "BLOW", "CLOSE", "HOME", "SMOKE_TEST"}

\* The labels the estimator is applied to: the enum and one string outside
\* it (block.action is cast to MachineState unchecked)
EstLabels == MachineStates \cup {"WAVE"}

EstTargetsA == {-1, 0, 2}

EstTargetsB == {-2, 0, 1}

EstConfigs ==
  { [DEFAULT_CONFIG EXCEPT !.motorADipPosition = a, !.motorBDipPosition = b,
                           !.motorAClosePosition = b, !.motorBClosePosition = a,
                           !.motorAOpenPosition = a, !.motorBOpenPosition = b] :
      a \in EstTargetsA, b \in EstTargetsB }

EstInit ==
  /\ InitCommon
  /\ motorAPosition \in -MaxPos .. MaxPos
  /\ motorBPosition \in -MaxPos .. MaxPos
  /\ isPiOnline = FALSE
  /\ heartbeatPending = FALSE
  /\ config \in EstConfigs
  /\ mounted = TRUE
  /\ draggedBlockId = NoDrag
  /\ dragPos = << 0, 0 >>
  /\ pendingSave = {}

EstNext == \E state \in EstLabels : HandleManualState(state)

EstSpec == EstInit /\ [][EstNext]_vars

(***************************************************************************)
(* The end-to-end scenario: the motors track of DEFAULT_CONFIG alone, at    *)
(* its real offsets, played for two iterations                             *)
(***************************************************************************)
E2ETimeline ==
  << DefaultTimeline[1],
     Track("track-fan", "fan", << >>),
     Track("track-smoke", "smoke", << >>) >>

E2EConfig == WithTimeline(DEFAULT_CONFIG, E2ETimeline, 0, 0)

\* Cached positions at the start: home, 25 steps off, the DIP target
E2EPositionsA == {0, 1, 8}

E2EPositionsB == {-8, -1, 0}

E2EInit ==
  /\ InitCommon
  /\ motorAPosition \in E2EPositionsA
  /\ motorBPosition \in E2EPositionsB
  /\ isPiOnline \in BOOLEAN
  /\ heartbeatPending = FALSE
  /\ config = E2EConfig
  /\ mounted = TRUE
  /\ draggedBlockId = NoDrag
  /\ dragPos = << 0, 0 >>
  /\ pendingSave = {}

E2ENext ==
  \/ StartRun
  \/ \E t \in timers : FireTimer(t)
  \/ \E iv \in intervals : Tick(iv)
  \/ \E req \in BagToSet(net), ok \in BOOLEAN :
       \E reply \in RepliesFor(req) : Respond(req, ok, reply)
  \/ AdvanceTo(E2EMaxTime)

E2ESpec == E2EInit /\ [][E2ENext]_vars

(***************************************************************************)
(* A run that is never stopped, for as long as it goes.  Time is kept      *)
(* relative to the present: now stays 0 and the passing of one unit brings *)
(* every due time one unit closer, so the clock needs no bound.            *)
(***************************************************************************)
Shift(r) == [r EXCEPT !.due = @ - 1]

\* One time unit passes once every callback that is due has run
Elapse ==
  /\ Busy
  /\ InFlight < MaxInFlight
  /\ \A t \in timers : t.due > now
  /\ \A iv \in intervals : iv.due > now
  /\ \A c \in stops : c.pc = "delay" => c.due > now
  /\ timers' = { Shift(t) : t \in timers }
  /\ intervals' = { Shift(iv) : iv \in intervals }
  /\ timeoutRefs' = [k \in DOMAIN timeoutRefs |-> Shift(timeoutRefs[k])]
  /\ stops' = { IF c.pc = "delay" THEN Shift(c) ELSE c : c \in stops }
  /\ event' = NoEvent
  /\ UNCHANGED << config, machineState, isRunning, isPiOnline, smokeRunning,
                  fanRunning, motorAPosition, motorBPosition, movementDuration,
                  currentPlaybackTime, isRunningRef, playbackIntervalRef, net, now,
                  runId, homeIssued, editorVars, loadPc, manualCount, piIp,
                  heartbeatPending >>

\* A request that never resolves: fetch has no timeout, neither then nor
\* catch ever runs, and nothing in the program waits for it
NeverResolves(req) ==
  /\ BagIn(req, net)
  /\ net' = Settle(net, req)
  /\ event' = NoEvent
  /\ UNCHANGED << config, machineState, isRunning, isPiOnline, smokeRunning,
                  fanRunning, motorAPosition, motorBPosition, movementDuration,
                  currentPlaybackTime, isRunningRef, timeoutRefs, playbackIntervalRef,
                  timers, intervals, stops, now, runId, homeIssued, editorVars,
                  loadPc, manualCount, piIp, heartbeatPending >>

\* A request in flight resolves, fails, or is given up as never resolving
Settles ==
  \E req \in BagToSet(net) :
    \/ NeverResolves(req)
    \/ \E ok \in BOOLEAN : \E reply \in RepliesFor(req) : Respond(req, ok, reply)

LiveInit ==
  /\ InitCommon
  /\ motorAPosition = 0
  /\ motorBPosition = 0
  /\ isPiOnline \in BOOLEAN
  /\ heartbeatPending = FALSE
  /\ config \in SchedConfigs
  /\ mounted = TRUE
  /\ draggedBlockId = NoDrag
  /\ dragPos = << 0, 0 >>
  /\ pendingSave = {}

LiveNext ==
  \/ StartRun
  \/ \E t \in timers : FireTimer(t)
  \/ \E iv \in intervals : Tick(iv)
  \/ \E req \in BagToSet(net), ok \in BOOLEAN :
       \E reply \in RepliesFor(req) : Respond(req, ok, reply)
  \/ \E req \in BagToSet(net) : NeverResolves(req)
  \/ Elapse

\* Timers and the interval fire when due and time passes; a request in
\* flight ends one way or the other, possibly by never resolving
LiveSpec ==
  /\ LiveInit
  /\ [][LiveNext]_vars
  /\ WF_vars(\E t \in timers : FireTimer(t))
  /\ WF_vars(\E iv \in intervals : Tick(iv))
  /\ WF_vars(Elapse)
  /\ WF_vars(Settles)

(***************************************************************************)
(* The address field and the heartbeat effect                              *)
(***************************************************************************)
\* onChange of the address field, then the heartbeat effect (deps [piIp]):
\* its cleanup clears the 5000 ms interval, its body sets isPiOnline false
\* for an empty address and else arms a new interval.  A probe that is in
\* flight is not aborted; a probe not sent yet is now more than a window away.
SetPiIp(set) ==
  /\ set # piIp
  /\ piIp' = set
  /\ isPiOnline' = IF set THEN isPiOnline ELSE FALSE
  /\ heartbeatPending' \in {heartbeatPending, FALSE}
  /\ event' = NoEvent
  /\ UNCHANGED << config, machineState, isRunning, smokeRunning, fanRunning,
                  motorAPosition, motorBPosition, movementDuration,
                  currentPlaybackTime, isRunningRef, timeoutRefs, playbackIntervalRef,
                  timers, intervals, net, stops, now, runId, homeIssued, editorVars,
                  loadPc, manualCount >>

\* The player with the address field and the heartbeat
ProbeNext ==
  \/ StartRun
  \/ StopRun
  \/ \E t \in timers : FireTimer(t)
  \/ \E iv \in intervals : Tick(iv)
  \/ \E c \in stops : StopSendOpen(c)
  \/ \E req \in BagToSet(net), ok \in BOOLEAN :
       \E reply \in RepliesFor(req) : StopResume(req, ok, reply)
  \/ \E req \in BagToSet(net), ok \in BOOLEAN :
       \E reply \in RepliesFor(req) : Respond(req, ok, reply)
  \/ \E reply \in ServerReplies : HeartbeatOk(reply)
  \/ HeartbeatFail
  \/ \E set \in BOOLEAN : SetPiIp(set)
  \/ Advance

ProbeSpec == Init /\ [][ProbeNext]_vars

\* The player with the Manual Overrides buttons, between two heartbeats
ManualNext ==
  \/ StartRun
  \/ StopRun
  \/ \E t \in timers : FireTimer(t)
  \/ \E iv \in intervals : Tick(iv)
  \/ \E c \in stops : StopSendOpen(c)
  \/ \E req \in BagToSet(net), ok \in BOOLEAN :
       \E reply \in RepliesFor(req) : StopResume(req, ok, reply)
  \/ \E req \in BagToSet(net), ok \in BOOLEAN :
       \E reply \in RepliesFor(req) : Respond(req, ok, reply)
  \/ \E state \in ManualButtons : HandleManualState(state)
  \/ \E req \in BagToSet(net), ok \in BOOLEAN :
       \E reply \in RepliesFor(req) : ManualResume(req, ok, reply)
  \/ Advance

ManualSpec == Init /\ [][ManualNext]_vars

(***************************************************************************)
(* The timeline editor (MultiTrackTimeline) and handleSaveMotorPosition    *)
(***************************************************************************)
\* The ids Date.now().toString() gives to the blocks added, in order
NewIds == << "n1", "n2", "n3", "n4" >>

\* Start times a drag can give a block, durations an edit can give it
MoveStarts == {0, 100, 200}

EditDurations == {0, 20}

\* What /save_motor_position answers: a config with the saved dip position;
\* the fields the server leaves at 0 keep their value through `||`
SavedConfigs ==
  { [motorADipPosition |-> 4, motorBDipPosition |-> -4,
     motorAOpenPosition |-> 0, motorBOpenPosition |-> 0,
     motorAClosePosition |-> 0, motorBClosePosition |-> 0] }

BlocksOf(timeline) ==
  { FlattenTracks(timeline)[i] : i \in DOMAIN FlattenTracks(timeline) }

\* The mount effect's filter: a block of another type than its track's
Misplaced(track, block) ==
  \/ track.type = "motors" /\ block.type # "motor"
  \/ track.type = "fan" /\ block.type # "fan"
  \/ track.type = "smoke" /\ block.type # "smoke"

\* The options of a block's action select
ActionOptions(block) ==
  IF block.type = "motor" THEN {"OPEN", "CLOSE", "DIP"}
  ELSE IF block.type \in {"fan", "smoke"} THEN {"start", "stop"}
  ELSE {}

\* useEffect(..., []) of the editor: clean up misplaced blocks on mount
EdMount ==
  /\ ~mounted
  /\ mounted' = TRUE
  /\ LET timeline == config.loopTimeline
         cleanedTimeline ==
           [t \in DOMAIN timeline |->
              [timeline[t] EXCEPT !.blocks =
                 SelectSeq(timeline[t].blocks,
                           LAMBDA block : ~Misplaced(timeline[t], block))]]
         needsCleanup ==
           \E t \in DOMAIN timeline :
             \E i \in DOMAIN timeline[t].blocks :
               Misplaced(timeline[t], timeline[t].blocks[i])
     IN config' = IF needsCleanup
                  THEN WithTimeline(config, cleanedTimeline,
                                    motorAPosition, motorBPosition)
                  ELSE config
  /\ UNCHANGED << schedVars, motorAPosition, motorBPosition, editCount,
                  draggedBlockId, dragPos, pendingSave >>

\* handleAddBlock(track.id, track.type) of the track at index t
EdAddBlock(t) ==
  /\ mounted
  /\ ~isRunning
  /\ editCount < MaxEdits
  /\ t \in DOMAIN config.loopTimeline
  /\ LET timeline == config.loopTimeline
         track == timeline[t]
         startTime ==
           IF track.blocks = << >> THEN 0
           ELSE EditorEndTime(track.blocks[Len(track.blocks)], config,
                              motorAPosition, motorBPosition)
         id == NewIds[editCount + 1]
         newBlock ==
           IF track.type = "motors" THEN Block(id, "motor", "OPEN", startTime, 0)
           ELSE IF track.type = "fan"
           THEN Block(id, "fan", "start", startTime, FanBlockDuration)
           ELSE Block(id, "smoke", "start", startTime, SmokeBlockDuration)
         newTimeline ==
           [u \in DOMAIN timeline |->
              IF timeline[u].id = track.id
              THEN [timeline[u] EXCEPT !.blocks = Append(@, newBlock)]
              ELSE timeline[u]]
     IN /\ track.type \in {"motors", "fan", "smoke"}
        /\ config' = WithTimeline(config, newTimeline, motorAPosition, motorBPosition)
  /\ editCount' = editCount + 1
  /\ UNCHANGED << schedVars, motorAPosition, motorBPosition, mounted,
                  draggedBlockId, dragPos, pendingSave >>

\* handleDeleteBlock(blockId)
EdDeleteBlock(blockId) ==
  /\ mounted
  /\ ~isRunning
  /\ editCount < MaxEdits
  /\ LET newTimeline == RemoveBlock(config.loopTimeline, blockId)
     IN config' = WithTimeline(config, newTimeline, motorAPosition, motorBPosition)
  /\ editCount' = editCount + 1
  /\ UNCHANGED << schedVars, motorAPosition, motorBPosition, mounted,
                  draggedBlockId, dragPos, pendingSave >>

\* handleChangeAction(blockId, newAction)
EdChangeAction(blockId, newAction) ==
  /\ mounted
  /\ editCount < MaxEdits
  /\ LET newTimeline ==
           UpdateBlocks(config.loopTimeline, blockId, [action |-> newAction])
     IN config' = WithTimeline(config, newTimeline, motorAPosition, motorBPosition)
  /\ editCount' = editCount + 1
  /\ UNCHANGED << schedVars, motorAPosition, motorBPosition, mounted,
                  draggedBlockId, dragPos, pendingSave >>

\* handleDurationClick(block), then handleEditBlur with the number typed:
\* updateBlock(id, { duration: numValue })
EdEditDuration(block, numValue) ==
  /\ mounted
  /\ editCount < MaxEdits
  /\ ~(block.type = "fan" /\ block.action = "start")
  /\ numValue >= 0
  /\ LET newTimeline ==
           UpdateBlocks(config.loopTimeline, block.id, [duration |-> numValue])
     IN config' = WithTimeline(config, newTimeline, motorAPosition, motorBPosition)
  /\ editCount' = editCount + 1
  /\ UNCHANGED << schedVars, motorAPosition, motorBPosition, mounted,
                  draggedBlockId, dragPos, pendingSave >>

\* handleConfigClick(block), then handleEditBlur: updateBlock(id, { config })
\* changes the block's fan speed or fogger intensity, no field of its timing
EdEditBlockConfig(block) ==
  /\ mounted
  /\ editCount < MaxEdits
  /\ block.type \in {"fan", "smoke"}
  /\ block.action = "start"
  /\ config' = WithTimeline(config, config.loopTimeline,
                            motorAPosition, motorBPosition)
  /\ editCount' = editCount + 1
  /\ UNCHANGED << schedVars, motorAPosition, motorBPosition, mounted,
                  draggedBlockId, dragPos, pendingSave >>

\* handleMouseDown(e, block, trackId); the effect of [draggedBlockId, ...,
\* timeline, config] then adds the window listeners of this render
EdMouseDown(block) ==
  /\ mounted
  /\ ~isRunning
  /\ draggedBlockId' = block.id
  /\ dragPos' = << motorAPosition, motorBPosition >>
  /\ UNCHANGED << config, schedVars, motorAPosition, motorBPosition, mounted,
                  editCount, pendingSave >>

\* A mousemove during a drag: handleMouseMove, on the timeline element, then
\* handleGlobalMouseMove, on window.  Both set the config: the second call's
\* value is the one that stays.  The window listener is the one the effect
\* added when draggedBlockId, dragOffset, zoom or config last changed, and
\* estimates with the positions of that render.
EdMouseMove(newStartTime) ==
  /\ mounted
  /\ draggedBlockId # NoDrag
  /\ editCount < MaxEdits
  /\ LET newTimeline ==
           UpdateBlocks(config.loopTimeline, draggedBlockId,
                        [startTime |-> newStartTime])
         handleMouseMove ==
           WithTimeline(config, newTimeline, motorAPosition, motorBPosition)
         handleGlobalMouseMove ==
           WithTimeline(config, newTimeline, dragPos[1], dragPos[2])
         first == [config |-> handleMouseMove]
         second == [first EXCEPT !.config = handleGlobalMouseMove]
     IN config' = second.config
  /\ dragPos' = << motorAPosition, motorBPosition >>
  /\ editCount' = editCount + 1
  /\ UNCHANGED << schedVars, motorAPosition, motorBPosition, mounted,
                  draggedBlockId, pendingSave >>

\* handleMouseUp
EdMouseUp ==
  /\ mounted
  /\ draggedBlockId # NoDrag
  /\ draggedBlockId' = NoDrag
  /\ UNCHANGED << config, schedVars, motorAPosition, motorBPosition, mounted,
                  editCount, dragPos, pendingSave >>

\* handleSaveMotorPosition(state) up to its await: the call holds the config
\* of the render it was made in
SaveMotorPosition ==
  /\ isPiOnline
  /\ Cardinality(pendingSave) < MaxSaves
  /\ pendingSave' = pendingSave \cup {config}
  /\ UNCHANGED << config, schedVars, motorAPosition, motorBPosition, mounted,
                  editCount, draggedBlockId, dragPos >>

\* handleSaveMotorPosition after its await: data.success with data.config
SaveMotorPositionOk(held, data) ==
  /\ held \in pendingSave
  /\ pendingSave' = pendingSave \ {held}
  /\ config' =
       [held EXCEPT
          !.motorADipPosition = OrElse(data.motorADipPosition, @),
          !.motorBDipPosition = OrElse(data.motorBDipPosition, @),
          !.motorAOpenPosition = OrElse(data.motorAOpenPosition, @),
          !.motorBOpenPosition = OrElse(data.motorBOpenPosition, @),
          !.motorAClosePosition = OrElse(data.motorAClosePosition, @),
          !.motorBClosePosition = OrElse(data.motorBClosePosition, @)]
  /\ UNCHANGED << schedVars, motorAPosition, motorBPosition, mounted, editCount,
                  draggedBlockId, dragPos >>

\* handleSaveMotorPosition after its await: the fetch failed or the answer
\* has no success flag
SaveMotorPositionFail(held) ==
  /\ held \in pendingSave
  /\ pendingSave' = pendingSave \ {held}
  /\ UNCHANGED << config, schedVars, motorAPosition, motorBPosition, mounted,
                  editCount, draggedBlockId, dragPos >>

\* The page right after App's useState calls: the editor has not mounted
EditInit ==
  /\ InitCommon
  /\ motorAPosition = 0
  /\ motorBPosition = 0
  /\ isPiOnline = FALSE
  /\ heartbeatPending = TRUE
  /\ config = DEFAULT_CONFIG
  /\ mounted = FALSE
  /\ draggedBlockId = NoDrag
  /\ dragPos = << 0, 0 >>
  /\ pendingSave = {}

EditNext ==
  \/ EdMount
  \/ \E t \in DOMAIN config.loopTimeline : EdAddBlock(t)
  \/ \E block \in BlocksOf(config.loopTimeline) : EdDeleteBlock(block.id)
  \/ \E block \in BlocksOf(config.loopTimeline) :
       \E newAction \in ActionOptions(block) : EdChangeAction(block.id, newAction)
  \/ \E block \in BlocksOf(config.loopTimeline) :
       \E numValue \in EditDurations : EdEditDuration(block, numValue)
  \/ \E block \in BlocksOf(config.loopTimeline) : EdEditBlockConfig(block)
  \/ \E block \in BlocksOf(config.loopTimeline) : EdMouseDown(block)
  \/ \E newStartTime \in MoveStarts : EdMouseMove(newStartTime)
  \/ EdMouseUp
  \/ SaveMotorPosition
  \/ \E held \in pendingSave : \E data \in SavedConfigs :
       SaveMotorPositionOk(held, data)
  \/ \E held \in pendingSave : SaveMotorPositionFail(held)
  \/ \E reply \in ServerReplies : HeartbeatOk(reply)
  \/ HeartbeatFail
  \/ \E loaded \in ServerConfigs : LoadConfigOk(loaded)
  \/ LoadConfigFail

EditSpec == EditInit /\ [][EditNext]_vars

(***************************************************************************)
(* Properties of the player                                                *)
(***************************************************************************)
\* This step is the callback of the per-block timer t
TimerStep(t) ==
  /\ t \in timers
  /\ timers' = timers \ {t}
  /\ isRunningRef' = isRunningRef

\* This step is the callback of the interval iv
TickStep(iv) ==
  /\ iv \in intervals
  /\ intervals' = (intervals \ {iv}) \cup {[iv EXCEPT !.due = iv.due + TickUnits]}

\* This step is the callback of t and its executeBlock passes the run check
DispatchStep(t) == TimerStep(t) /\ isRunningRef

\* stopSimulation has run for the run: a later run exists or the flag is false
RunStopped(run) == run # runId \/ ~isRunningRef

\* The movement commands of the blocks of a run that are unresolved
MovesInFlight(run) ==
  LET moves == { q \in BagToSet(net) :
                   q.kind = "set_state" /\ q.src = "block" /\ q.run = run }
  IN BagCardinality([q \in moves |-> CopiesIn(q, net)])

\* C1: once stopSimulation has run for a run, no per-block timer callback and
\* no tick callback armed by that run issues a remote command or changes the
\* machine state label, the cached positions, the movement duration or the
\* fogger flag.
C1_CancellationCompleteness ==
  [][ /\ \A t \in timers :
           (TimerStep(t) /\ RunStopped(t.run)) =>
             UNCHANGED << net, machineState, motorAPosition, motorBPosition,
                          movementDuration, smokeRunning >>
      /\ \A iv \in intervals :
           (TickStep(iv) /\ RunStopped(iv.run)) =>
             UNCHANGED << net, machineState, motorAPosition, motorBPosition,
                          movementDuration, smokeRunning, timers >> ]_vars

\* C2: every block dispatch and every re-arming comes from a timer or tick
\* armed by the current run, never from one armed by an earlier run.
C2_RunIsolation ==
  [][ /\ \A t \in timers : DispatchStep(t) => t.run = runId
      /\ \A iv \in intervals :
           (TickStep(iv) /\ timers' # timers) => iv.run = runId ]_vars

\* C3: at most one movement command of the blocks of a run is unresolved at
\* any time.
C3_OneMovementInFlight == \A run \in 1..MaxRuns : MovesInFlight(run) <= 1

\* C4: when a movement command of a block of the current run has failed, the
\* run is aborted: the run flag and the run boolean are false and no
\* per-block timer or tick of the run is armed.
C4_FailureAbortsRun ==
  (event.kind = "fail" /\ event.run = runId) =>
    /\ ~isRunningRef
    /\ ~isRunning
    /\ \A t \in timers : t.run # runId
    /\ \A iv \in intervals : iv.run # runId

\* The cached positions are the target of the motor block dispatched last,
\* whose action is the machine state label
AtDispatchedTarget ==
  /\ machineState \in {"OPEN", "CLOSE", "DIP"}
  /\ << motorAPosition, motorBPosition >> =
       MotorTarget(machineState, config, motorAPosition, motorBPosition)

\* C5: a motor block dispatched while the cached positions are the target of
\* the motor block dispatched before it sets the movement duration to the
\* estimate from those positions, and the cached positions to its own target.
C5_PositionPropagation ==
  [][ \A t \in timers :
        (/\ DispatchStep(t)
         /\ t.run = runId
         /\ t.block.type = "motor"
         /\ AtDispatchedTarget) =>
          /\ movementDuration' =
               calculateMovementDuration(t.block.action, config,
                                         motorAPosition, motorBPosition)
          /\ << motorAPosition', motorBPosition' >> =
               MotorTarget(t.block.action, config, motorAPosition, motorBPosition)
    ]_vars

\* C6: with loop length L, a block with start offset s is dispatched only at
\* the times k*L + s after the start of its run.
C6_LoopRestartFidelity ==
  [][ \A t \in timers :
        (DispatchStep(t) /\ t.run = runId) =>
          (now - t.env.loopStartTime - t.block.startTime) % t.env.maxEndTime = 0
    ]_vars

C8_OfflineSkip ==
  [][ \A t \in timers :
        (DispatchStep(t) /\ t.block.type \in {"motor", "smoke"}) =>
          ((net' # net) <=> isPiOnline) ]_vars

\* The blocks of the schedules (loopData.allBlocks) this step builds
ScheduledBlocks ==
  UNION { { iv.allBlocks[i] : i \in DOMAIN iv.allBlocks } : iv \in intervals' \ intervals }

\* C11: every block of the flattened schedule toggleRun builds is a block of
\* a track of its own type: a block that does not match its track is not
\* scheduled.
C11_TrackTyping ==
  [][ runId' = runId + 1 =>
        \A block \in ScheduledBlocks :
          \E t \in DOMAIN config.loopTimeline :
            /\ \E i \in DOMAIN config.loopTimeline[t].blocks :
                 config.loopTimeline[t].blocks[i] = block
            /\ ~Misplaced(config.loopTimeline[t], block) ]_vars

(***************************************************************************)
(* Properties of the editor                                                *)
(***************************************************************************)
\* The maximum over all blocks of all tracks of startTime + effective
\* duration under the given targets and positions, 0 for an empty timeline
MaxBlockEnd(cfg, posA, posB) ==
  LET ends == { EditorEndTime(b, cfg, posA, posB) : b \in BlocksOf(cfg.loopTimeline) }
  IN IF ends = {} THEN 0 ELSE CHOOSE m \in ends : \A e \in ends : e <= m

\* This step is a timeline mutation of the editor or its mount-time cleanup
MutationStep == editCount' = editCount + 1 \/ (~mounted /\ mounted')

\* C9: after the mount-time cleanup and after every timeline mutation (add,
\* delete, move, change of duration or action), config.loopDuration is the
\* maximum over all blocks of startTime + effective duration.
C9_LoopDurationAfterEdits ==
  [][ MutationStep =>
        config'.loopDuration =
          MaxBlockEnd(config', motorAPosition', motorBPosition') ]_vars

\* C10: when the configured targets or the cached positions change while
\* config.loopDuration is the maximum over all blocks of startTime +
\* effective duration, it is that maximum under the new targets and positions.
C10_LoopDurationFollowsPositions ==
  [][ (/\ config.loopDuration = MaxBlockEnd(config, motorAPosition, motorBPosition)
       /\ config'.loopTimeline = config.loopTimeline
       /\ \/ << motorAPosition', motorBPosition' >> #
               << motorAPosition, motorBPosition >>
          \/ [config' EXCEPT !.loopDuration = 0] #
               [config EXCEPT !.loopDuration = 0]) =>
        config'.loopDuration =
          MaxBlockEnd(config', motorAPosition', motorBPosition') ]_vars

(***************************************************************************)
(* Properties of the estimator                                             *)
(***************************************************************************)
MovementPoses == {"DIP", "OPEN", "CLOSE", "HOME"}

\* The step is a handleManualState call
ManualStep == manualCount' = manualCount + 1

\* C12: for every movement pose and every pair of cached positions the
\* estimate stored by the call is max(|targetA - posA|, |targetB - posB|)
\* times the step delay, with the target the dispatcher resolves for the
\* pose; it is never negative, it is 0 when both axes are at the target, it
\* is 0 for every other label, and the estimate changes neither the
\* configuration nor the cached positions
C12_EstimatorFormula ==
  [][ ManualStep =>
        LET target == MotorTarget(machineState', config, motorAPosition, motorBPosition)
            maxSteps == Max2(Abs(target[1] - motorAPosition),
                             Abs(target[2] - motorBPosition))
        IN /\ machineState' \in MovementPoses =>
                movementDuration' = maxSteps * StepDelay
           /\ movementDuration' >= 0
           /\ (machineState' \in MovementPoses
               /\ << motorAPosition, motorBPosition >> = target) =>
                movementDuration' = 0
           /\ machineState' \notin MovementPoses => movementDuration' = 0
           /\ UNCHANGED << config, motorAPosition, motorBPosition >> ]_vars

\* An estimate of a movement pose that is not zero, and one that is
C12_Witness ==
  /\ manualCount = 1
  /\ machineState = "HOME"
  /\ movementDuration = MaxPos * StepDelay
  /\ motorAPosition = MaxPos
  /\ motorBPosition = 1 - MaxPos

\* The positions the configuration holds for a named movement action
ConfiguredTarget(state, cfg) ==
  IF state = "DIP" THEN << cfg.motorADipPosition, cfg.motorBDipPosition >>
  ELSE IF state = "OPEN" THEN << cfg.motorAOpenPosition, cfg.motorBOpenPosition >>
  ELSE << cfg.motorAClosePosition, cfg.motorBClosePosition >>

\* C13: for DIP, OPEN and CLOSE the target of the dispatcher and of the
\* estimate is the position configured for the action, whatever integer it is
C13_TargetResolution ==
  [][ (ManualStep /\ machineState' \in {"DIP", "OPEN", "CLOSE"}) =>
        LET target == ConfiguredTarget(machineState', config)
        IN /\ MotorTarget(machineState', config, motorAPosition, motorBPosition)
                = target
           /\ movementDuration' =
                Max2(Abs(target[1] - motorAPosition),
                     Abs(target[2] - motorBPosition)) * StepDelay ]_vars

(***************************************************************************)
(* Properties of the stop and of the manual overrides                      *)
(***************************************************************************)
\* A fogger start of a block has been issued and is not answered yet
SmokeStartInFlight ==
  \E req \in BagToSet(net) : req.kind = "control_smoke" /\ req.arg = "start"

\* Every block of the timeline sits in a track of its type
WellTyped(timeline) ==
  \A t \in DOMAIN timeline : \A i \in DOMAIN timeline[t].blocks :
    ~Misplaced(timeline[t], timeline[t].blocks[i])

\* The step is toggleRun calling stopSimulation
StopStep == isRunning /\ ~isRunning'

\* C14: a stopSimulation call made while the controller is online and the
\* fogger is active, which includes a start whose response is still in
\* flight, issues a fogger stop (here for a timeline whose blocks all sit
\* in the track of their type)
C14_SafeIdleOnStop ==
  [][ (StopStep /\ isPiOnline /\ WellTyped(config.loopTimeline)
       /\ (smokeRunning \/ SmokeStartInFlight)) =>
        \E req \in BagToSet(net') :
          req.kind = "control_smoke" /\ req.arg = "stop" /\ req.src = "stop" ]_vars

\* The step settles the home-return command of a stopSimulation call: its
\* response arrived or the request failed
HomeReturnSettles == \E c \in stops : c.pc = "open" /\ c \notin stops'

\* C15: once the home-return command of a stop has resolved or failed the
\* state label is IDLE, the run boolean is false and the playhead is 0
C15_StopSettlesToIdle ==
  [][ HomeReturnSettles =>
        /\ machineState' = "IDLE"
        /\ ~isRunning'
        /\ currentPlaybackTime' = 0 ]_vars

\* C16: handleManualState leaves the run flags false; online, the stop it
\* makes returns home (it will issue OPEN) when the requested state is not a
\* movement and issues no OPEN of its own when it is one; the requested
\* state's command is the one request the call prepares
C16_ManualOverride ==
  [][ ManualStep =>
        /\ ~isRunning' /\ ~isRunningRef'
        /\ isPiOnline =>
             /\ \E c \in stops' \ stops :
                  c.skipOpen = (machineState' \in MovementPoses)
             /\ \E req \in BagToSet(net') :
                  req.src = "manual" /\ req.arg = machineState' ]_vars

\* C17: no step ends with a rejected promise that has no handler
C17_NoUncaughtFailure == event.kind # "unhandled"

\* The step is the continuation of a request a block issued: its response
\* arrived or the request failed
BlockResumes ==
  \E req \in BagToSet(net) : req.src = "block" /\ net' = Settle(net, req)

\* C20: a continuation of a block's request that resumes while the run flag
\* is false changes neither the cached positions, nor the movement duration,
\* nor the fogger and blower flags, and arms nothing
C20_ResumptionCheck ==
  [][ (BlockResumes /\ ~isRunningRef) =>
        UNCHANGED << motorAPosition, motorBPosition, movementDuration,
                     smokeRunning, fanRunning, timers, intervals >> ]_vars

(***************************************************************************)
(* Properties of the end-to-end scenario                                   *)
(***************************************************************************)
\* The instant the timer was armed: the start of its iteration
IterationStart(t) == t.due - t.block.startTime

\* C18: for the motors track OPEN at 0 s, CLOSE at 2 s, DIP at 4 s (0, 40 and
\* 80 time units) the flattened schedule is OPEN, CLOSE, DIP at these offsets
\* and the loop length of the run is 4 s plus the estimate of DIP; every
\* dispatch happens at its block's offset from the start of its iteration,
\* after the earlier blocks of the iteration; a restart comes no earlier than
\* the loop length and arms every block at its offset from the restart
C18_EndToEndSchedule ==
  [][ /\ runId' = runId + 1 =>
           \A iv \in intervals' \ intervals :
             /\ [i \in DOMAIN iv.allBlocks |-> iv.allBlocks[i].action]
                  = << "OPEN", "CLOSE", "DIP" >>
             /\ [i \in DOMAIN iv.allBlocks |-> iv.allBlocks[i].startTime]
                  = << 0, 40, 80 >>
             /\ iv.env.maxEndTime =
                  80 + calculateMovementDuration("DIP", config, motorAPosition,
                                                 motorBPosition)
             /\ \A i \in DOMAIN iv.allBlocks :
                  \E t \in timers' :
                    t.block = iv.allBlocks[i] /\ t.due = now + t.block.startTime
      /\ \A t \in timers :
           DispatchStep(t) =>
             /\ now = IterationStart(t) + t.block.startTime
             /\ machineState' = t.block.action
             /\ \A u \in timers :
                  IterationStart(u) = IterationStart(t) => u.idx >= t.idx
      /\ \A iv \in intervals :
           (TickStep(iv) /\ timers' # timers) =>
             /\ currentPlaybackTime' = 0
             /\ (currentPlaybackTime + 1) * TickUnits >= iv.env.maxEndTime
             /\ currentPlaybackTime * TickUnits < iv.env.maxEndTime
             /\ \A i \in DOMAIN iv.allBlocks :
                  \E t \in timers' \ timers :
                    t.block = iv.allBlocks[i] /\ t.due = now + t.block.startTime
    ]_vars

\* The DIP block of the second iteration has been dispatched
C18_Witness ==
  /\ isRunning
  /\ machineState = "DIP"
  /\ now > 2 * 80

(***************************************************************************)
(* Properties of a run that is never stopped                               *)
(***************************************************************************)
ScheduleIds == { block.id : block \in BlocksOf(config.loopTimeline) }

Tracked(t) ==
  t.block.id \in DOMAIN timeoutRefs /\ timeoutRefs[t.block.id] = Handle(t)

\* C21: while a run is active every armed per-block timer is recorded in
\* timeoutRefs under its block id, so clearing the map cancels every one
C21_TimerSetTracksTimers ==
  isRunningRef => \A t \in timers : Tracked(t)

\* C22: no run starts while a stopSimulation call is still suspended, and
\* no step of a suspended stop (a shutdown command sent or settled) happens
\* while a later run is running
C22_NoStartWhileStopping ==
  [][ /\ runId' = runId + 1 => stops = {}
      /\ (stops' # stops /\ isRunningRef) =>
           \A c \in stops \ stops' : c.run = runId ]_vars

\* The step is the answer to a heartbeat probe, or its failure
ProbeStep == heartbeatPending /\ ~heartbeatPending' /\ piIp' = piIp

\* C23: the online flag changes only when the heartbeat effect or one of its
\* probes sets it, and it is false while no address is set
C23_OnlineFlagOneWriter ==
  [][ /\ isPiOnline' # isPiOnline => (ProbeStep \/ piIp' # piIp)
      /\ ~piIp' => ~isPiOnline' ]_vars

(***************************************************************************)
(* Properties of the blower                                                *)
(***************************************************************************)
FanEnable(run) == Request("update_config", "fan_on", "start", run)

RecognizedPoses == {"OPEN", "CLOSE", "DIP"}

\* C25: a motor block whose action is none of OPEN, CLOSE, DIP is never in
\* the schedule a start builds, and no set_state command carries a label
\* outside the poses
C25_UnrecognizedActions ==
  [][ /\ runId' = runId + 1 =>
           \A block \in ScheduledBlocks :
             block.type = "motor" => block.action \in RecognizedPoses
      /\ \A req \in BagToSet(net') :
           req.kind = "set_state" => req.arg \in RecognizedPoses ]_vars

\* The run state a stop leaves
StoppedState(running, ref, refs, handle, playhead) ==
  /\ ~running
  /\ ~ref
  /\ refs = EmptyRefs
  /\ handle = NoHandle
  /\ playhead = 0

\* C26: a stopSimulation call made while no run is active (handleManualState
\* makes one, also right after a stop) finds the run state a stop leaves and
\* leaves it so, cancels no timer and no interval, and dispatches no block
C26_IdempotentCancellation ==
  [][ ManualStep =>
        /\ StoppedState(isRunning, isRunningRef, timeoutRefs, playbackIntervalRef,
                        currentPlaybackTime)
        /\ StoppedState(isRunning', isRunningRef', timeoutRefs', playbackIntervalRef',
                        currentPlaybackTime')
        /\ timers' = timers
        /\ intervals' = intervals
        /\ \A req \in BagToSet(net') : req.src = "block" => BagIn(req, net) ]_vars

\* A second stopSimulation call made while the first is still suspended
C26_Witness ==
  /\ manualCount = 1
  /\ \E c \in stops : c.skipOpen /\ c.run = runId
  /\ \E c \in stops : ~c.skipOpen /\ c.run = runId

(***************************************************************************)
(* Two toggleRun calls made from the closure of one render                 *)
(***************************************************************************)
\* toggleRun invoked twice from the same closure, isRunning false in it: the
\* second call tests the same isRunning and takes the start branch again
StartRunTwice ==
  /\ ~isRunning
  /\ runId + 2 <= MaxRuns
  /\ InFlight + 2 <= MaxInFlight
  /\ LET timeline == config.loopTimeline
         allBlocks == AllBlocks(timeline)
         maxEndTime == PlayerMaxEnd(allBlocks, config, motorAPosition, motorBPosition, 0)
         first == runId + 1
         second == runId + 2
         env == Env(config, motorAPosition, motorBPosition, Online, now, maxEndTime)
         fanOn(requests, run) ==
           IF config.fanEnabled /\ Online
           THEN Send(requests, Request("update_config", "fan_on", "start", run))
           ELSE requests
     IN /\ Len(timeline) # 0
        /\ Len(allBlocks) # 0
        /\ isRunning' = TRUE
        /\ isRunningRef' = TRUE
        /\ currentPlaybackTime' = 0
        /\ net' = fanOn(fanOn(net, first), second)
        /\ intervals' = intervals \cup
             { [run |-> run, due |-> now + TickUnits, allBlocks |-> allBlocks,
                env |-> env] : run \in {first, second} }
        /\ playbackIntervalRef' = second
        /\ timers' = timers \cup ArmBlocks(allBlocks, first, FALSE, env)
                            \cup ArmBlocks(allBlocks, second, FALSE, env)
        /\ timeoutRefs' = SetRefs(SetRefs(timeoutRefs, allBlocks, first, 1),
                                  allBlocks, second, 1)
        /\ runId' = second
  /\ event' = NoEvent
  /\ UNCHANGED << config, machineState, isPiOnline, smokeRunning, fanRunning,
                  motorAPosition, motorBPosition, movementDuration, stops, now,
                  homeIssued, editorVars, loadPc, manualCount, piIp, heartbeatPending >>

ToggleNext ==
  \/ StartRun
  \/ StartRunTwice
  \/ StopRun
  \/ \E t \in timers : FireTimer(t)
  \/ \E iv \in intervals : Tick(iv)
  \/ \E c \in stops : StopSendOpen(c)
  \/ \E req \in BagToSet(net), ok \in BOOLEAN :
       \E reply \in RepliesFor(req) : StopResume(req, ok, reply)
  \/ \E req \in BagToSet(net), ok \in BOOLEAN :
       \E reply \in RepliesFor(req) : Respond(req, ok, reply)
  \/ \E reply \in ServerReplies : HeartbeatOk(reply)
  \/ HeartbeatFail
  \/ Advance

ToggleSpec == Init /\ [][ToggleNext]_vars

ArmedBlocks == { t.block : t \in timers' \ timers }

\* C28: the playhead is 0 when no run is active; a tick of an active run
\* leaves it between 0 and the loop length of the run, at 0 when the
\* incremented playhead reaches or passes the loop length and one tick further
\* otherwise; the tick that does not restart arms and sends nothing, the
\* restart arms blocks of the run's schedule only, and a per-block timer
\* leaves the playhead alone
C28_PlayheadBounds ==
  [][ /\ ~isRunning => currentPlaybackTime = 0
      /\ ~isRunning' => currentPlaybackTime' = 0
      /\ \A iv \in intervals : (TickStep(iv) /\ isRunningRef) =>
           /\ 0 <= currentPlaybackTime'
           /\ currentPlaybackTime' * TickUnits <= iv.env.maxEndTime
           /\ currentPlaybackTime' =
                (IF (currentPlaybackTime + 1) * TickUnits > iv.env.maxEndTime
                    \/ ((currentPlaybackTime + 1) * TickUnits = iv.env.maxEndTime
                        /\ ~PlayheadBelow(currentPlaybackTime + 1))
                 THEN 0 ELSE currentPlaybackTime + 1)
           /\ currentPlaybackTime' # 0 => timers' = timers
           /\ ArmedBlocks \subseteq { iv.allBlocks[i] : i \in DOMAIN iv.allBlocks }
           /\ net' = net
      /\ \A t \in timers : TimerStep(t) => currentPlaybackTime' = currentPlaybackTime
    ]_vars

\* A run whose playhead advanced on its first tick and was reset on its second
C28_Witness ==
  /\ isRunning
  /\ currentPlaybackTime = 0
  /\ \E t \in timers : /\ t.restart
                       /\ t.run = runId
                       /\ t.due - t.block.startTime = t.env.loopStartTime + 2 * TickUnits

(***************************************************************************)
(* The player with the configuration changing under it: the editor's       *)
(* action select and the configuration loaded from the controller         *)
(***************************************************************************)
\* A timeline whose tracks hold no block
TimelineNone ==
  << Track("track-motors", "motors", << >>),
     Track("track-fan", "fan", << >>),
     Track("track-smoke", "smoke", << >>) >>

\* What /get_config answers here: a configuration with no block at all
SnapshotConfigs == { ShortConfig(TimelineNone, FALSE) }

SnapshotNext ==
  \/ StartRun
  \/ StopRun
  \/ \E t \in timers : FireTimer(t)
  \/ \E iv \in intervals : Tick(iv)
  \/ \E c \in stops : StopSendOpen(c)
  \/ \E req \in BagToSet(net), ok \in BOOLEAN :
       \E reply \in RepliesFor(req) : StopResume(req, ok, reply)
  \/ \E req \in BagToSet(net), ok \in BOOLEAN :
       \E reply \in RepliesFor(req) : Respond(req, ok, reply)
  \/ \E reply \in ServerReplies : HeartbeatOk(reply)
  \/ \E loaded \in SnapshotConfigs : LoadConfigOk(loaded)
  \/ \E block \in BlocksOf(config.loopTimeline) :
       \E newAction \in ActionOptions(block) : EdChangeAction(block.id, newAction)
  \/ Advance

\* The page with the controller not yet seen and the first probe under way
SnapshotInit ==
  /\ InitCommon
  /\ motorAPosition = 0
  /\ motorBPosition = 0
  /\ isPiOnline = FALSE
  /\ heartbeatPending = TRUE
  /\ config = ShortConfig(TimelineA, TRUE)
  /\ mounted = TRUE
  /\ draggedBlockId = NoDrag
  /\ dragPos = << 0, 0 >>
  /\ pendingSave = {}

SnapshotSpec == SnapshotInit /\ [][SnapshotNext]_vars

\* C29: a start step builds its schedule and its loop length from the
\* configuration and the positions of that moment, and no start step is taken
\* with a timeline that has no blocks; the schedule, the loop length and the
\* captured configuration of a run never change afterwards; a step that
\* changes the configuration arms, cancels and sends nothing and leaves the
\* playhead alone; a restart arms the blocks of the schedule the run started
\* with, at their offsets
C29_ScheduleSnapshot ==
  [][ /\ runId' = runId + 1 =>
           /\ AllBlocks(config.loopTimeline) # << >>
           /\ \A iv \in intervals' \ intervals :
                /\ iv.allBlocks = AllBlocks(config.loopTimeline)
                /\ iv.env.maxEndTime =
                     PlayerMaxEnd(iv.allBlocks, config, motorAPosition, motorBPosition, 0)
           /\ \A t \in timers' \ timers :
                /\ t.idx \in DOMAIN AllBlocks(config.loopTimeline)
                /\ t.block = AllBlocks(config.loopTimeline)[t.idx]
                /\ t.due = now + t.block.startTime
      /\ \A iv \in intervals : \A later \in intervals' :
           later.run = iv.run =>
             later.allBlocks = iv.allBlocks /\ later.env = iv.env
      /\ config' # config =>
           /\ timers' = timers
           /\ intervals' = intervals
           /\ timeoutRefs' = timeoutRefs
           /\ net' = net
           /\ currentPlaybackTime' = currentPlaybackTime
           /\ isRunning' = isRunning
      /\ \A iv \in intervals : TickStep(iv) =>
           \A t \in timers' \ timers :
             /\ t.run = iv.run
             /\ t.idx \in DOMAIN iv.allBlocks
             /\ t.block = iv.allBlocks[t.idx]
             /\ t.due = now + t.block.startTime ]_vars

\* A run that has restarted and whose configuration is no longer the one it
\* started with
C29_Witness ==
  /\ isRunning
  /\ \E t \in timers : /\ t.restart
                       /\ t.run = runId
                       /\ t.env.config.loopTimeline # config.loopTimeline

(***************************************************************************)
(* The loop length of the player and of the editor, for one motor block of *)
(* every label and every pair of cached positions                          *)
(***************************************************************************)
AgreeTimeline(label) ==
  << Track("track-motors", "motors", << Block("m1", "motor", label, 1, 0) >>),
     Track("track-fan", "fan", << >>),
     Track("track-smoke", "smoke", << Block("s1", "smoke", "start", 0, 1) >>) >>

\* The configurations /get_config can have answered: block.action is any string
AgreeConfigs == { ShortConfig(AgreeTimeline(label), FALSE) : label \in EstLabels }

AgreeInit ==
  /\ InitCommon
  /\ motorAPosition \in -MaxPos .. MaxPos
  /\ motorBPosition \in -MaxPos .. MaxPos
  /\ isPiOnline = FALSE
  /\ heartbeatPending = FALSE
  /\ config \in AgreeConfigs
  /\ mounted = TRUE
  /\ draggedBlockId = NoDrag
  /\ dragPos = << 0, 0 >>
  /\ pendingSave = {}

AgreeNext ==
  \/ StartRun
  \/ StopRun
  \/ \E t \in timers : FireTimer(t)
  \/ \E iv \in intervals : Tick(iv)
  \/ \E block \in BlocksOf(config.loopTimeline) :
       \E numValue \in EditDurations : EdEditDuration(block, numValue)
  \/ Advance

AgreeSpec == AgreeInit /\ [][AgreeNext]_vars

\* C30: the loop length toggleRun computes at start is the one the editor's
\* calculateTotalDuration gives for the same timeline, configuration and
\* positions; the loopDuration a mutation writes is the loop length the player
\* would compute; the two estimators agree on the action of every motor block
C30_LoopLengthAgreement ==
  [][ /\ runId' = runId + 1 =>
           \A iv \in intervals' \ intervals :
             iv.env.maxEndTime =
               calculateTotalDuration(config.loopTimeline, config,
                                      motorAPosition, motorBPosition)
      /\ editCount' = editCount + 1 =>
           config'.loopDuration =
             PlayerMaxEnd(AllBlocks(config'.loopTimeline), config',
                          motorAPosition', motorBPosition', 0)
      /\ \A block \in BlocksOf(config.loopTimeline) :
           block.type = "motor" =>
             calculateMovementDuration(block.action, config,
                                       motorAPosition, motorBPosition)
               = calculateMotorDuration(block.action, config,
                                        motorAPosition, motorBPosition) ]_vars

====
